---- MODULE Spec2Model ----
(***************************************************************************)
(* Model of the contact agenda of Script.js.                               *)
(*                                                                         *)
(* The backend (server.js part): the JSON backing document contacts.json,  *)
(* readContacts / writeContacts, and the GET and POST /api/contacts        *)
(* handlers, each handler cut at its awaits (fs.readFile, the open and the *)
(* write of fs.writeFile).                                                 *)
(*                                                                         *)
(* The page: Validator, Agenda.handleFormSubmit, addContact and            *)
(* loadContacts cut at their awaits, the isLoading flag, the interval of   *)
(* setupAutoRefresh, the reload timer and the 'online' event.  The page    *)
(* talks to the API at API_URL, whose answers are free.                    *)
(*                                                                         *)
(* Strings are sequences of one-character strings.  The backing document   *)
(* is a sequence of JSON tokens; JSON.stringify and JSON.parse are modelled *)
(* as the serializer and the parser over those tokens.                     *)
(***************************************************************************)
EXTENDS Integers, Sequences, FiniteSets

(* ------------------------------ bounds -------------------------------- *)
\* number of HTTP requests in a behaviour that handles them one at a time
MaxReq == 3
\* number of HTTP requests in a behaviour that handles them concurrently
MaxConcurrent == 2
\* last value of the millisecond clock
MaxClock == 2
\* number of POSTs the page sends
MaxPosts == 2
\* number of loadContacts calls the page can hold in flight
MaxLoads == 2

Req == 1..MaxReq

(* ------------------------------ strings ------------------------------- *)
\* the JavaScript value undefined (a property the object does not have)
Undefined == <<"undefined">>

Digits == {"0", "1", "2", "3", "4", "5", "6", "7", "8", "9"}

DigitChar(d) ==
  CASE d = 0 -> "0" [] d = 1 -> "1" [] d = 2 -> "2" [] d = 3 -> "3"
    [] d = 4 -> "4" [] d = 5 -> "5" [] d = 6 -> "6" [] d = 7 -> "7"
    [] d = 8 -> "8" [] d = 9 -> "9"

\* Number.prototype.toString() of a non-negative integer
RECURSIVE ToString(_)
ToString(n) ==
  IF n < 10 THEN <<DigitChar(n)>>
  ELSE ToString(n \div 10) \o <<DigitChar(n % 10)>>

IsSpace(c) == c \in {" ", "\t", "\n"}

RECURSIVE TrimStart(_)
TrimStart(s) ==
  IF s # <<>> /\ IsSpace(Head(s)) THEN TrimStart(Tail(s)) ELSE s

RECURSIVE TrimEnd(_)
TrimEnd(s) ==
  IF s # <<>> /\ IsSpace(s[Len(s)]) THEN TrimEnd(SubSeq(s, 1, Len(s) - 1)) ELSE s

\* String.prototype.trim()
Trim(s) == TrimEnd(TrimStart(s))

\* !value for a string-or-undefined value
Falsy(v) == v = Undefined \/ v = <<>>

(* --------------------------- JSON document ---------------------------- *)
NoObj == [nombre |-> Undefined, apellido |-> Undefined,
          telefono |-> Undefined, id |-> Undefined]

Tok(t) == [t |-> t, v |-> NoObj]
ObjTok(c) == [t |-> "obj", v |-> c]

RECURSIVE StringifyItems(_)
StringifyItems(cs) ==
  IF cs = <<>> THEN <<>>
  ELSE <<Tok("ws"), ObjTok(Head(cs))>>
         \o (IF Len(cs) > 1 THEN <<Tok(",")>> ELSE <<>>)
         \o StringifyItems(Tail(cs))

\* a serializer that leaves out the separating commas
StringifyNoComma(cs) ==
  IF cs = <<>> THEN <<Tok("["), Tok("]")>>
  ELSE <<Tok("[")>> \o [i \in 1..Len(cs) |-> ObjTok(cs[i])] \o <<Tok("]")>>

\* JSON.stringify(contacts, null, 2) of an array of contacts
Stringify(cs) ==
  IF cs = <<>> THEN <<Tok("["), Tok("]")>>
  ELSE <<Tok("[")>> \o StringifyItems(cs) \o <<Tok("ws"), Tok("]")>>

SyntaxError == [ok |-> FALSE, kind |-> "error", items |-> <<>>]

IsWs(k) == k.t = "ws"
NotWs(k) == ~IsWs(k)

\* the tokens between "[" and "]": empty, or objects separated by commas
ArrayInnerOk(inner) ==
  \/ inner = <<>>
  \/ /\ Len(inner) % 2 = 1
     /\ \A i \in 1..Len(inner) :
          IF i % 2 = 1 THEN inner[i].t = "obj" ELSE inner[i].t = ","

\* a parser that takes white space between tokens for a syntax error
ParseNoWhitespace(text) ==
  LET n == Len(text)
  IN  IF n = 0 THEN SyntaxError
      ELSE IF n = 1 /\ text[1].t \in {"{}", "null"}
        THEN [ok |-> TRUE, kind |-> text[1].t, items |-> <<>>]
      ELSE IF /\ n >= 2
              /\ text[1].t = "["
              /\ text[n].t = "]"
              /\ ArrayInnerOk(SubSeq(text, 2, n - 1))
        THEN [ok |-> TRUE, kind |-> "array",
              items |-> [i \in 1..((n - 1) \div 2) |-> text[2 * i].v]]
      ELSE SyntaxError

\* JSON.parse(data): a value, or a SyntaxError
Parse(text) ==
  LET t == SelectSeq(text, NotWs)
      n == Len(t)
  IN  IF n = 0 THEN SyntaxError
      ELSE IF n = 1 /\ t[1].t \in {"{}", "null"}
        THEN [ok |-> TRUE, kind |-> t[1].t, items |-> <<>>]
      ELSE IF /\ n >= 2
              /\ t[1].t = "["
              /\ t[n].t = "]"
              /\ ArrayInnerOk(SubSeq(t, 2, n - 1))
        THEN [ok |-> TRUE, kind |-> "array",
              items |-> [i \in 1..((n - 1) \div 2) |-> t[2 * i].v]]
      ELSE SyntaxError

(* ------------------------------ the file ------------------------------ *)
Absent == [exists |-> FALSE, text |-> <<>>]
FileOf(text) == [exists |-> TRUE, text |-> text]

EmptyArray == [kind |-> "array", items |-> <<>>]

\* fs.readFile(DATA_FILE, 'utf8'): the text, or the error it rejects with
ReadFile(f, fault) ==
  IF fault # "none" THEN [err |-> fault, data |-> <<>>]
  ELSE IF ~f.exists THEN [err |-> "ENOENT", data |-> <<>>]
  ELSE [err |-> "none", data |-> f.text]

\* a readContacts whose catch tests only for ENOENT: a SyntaxError is rethrown
ReadContactsRethrow(res) ==
  IF res.err = "none"
    THEN LET p == Parse(res.data)
         IN  IF p.ok THEN [threw |-> FALSE, val |-> [kind |-> p.kind, items |-> p.items]]
             ELSE [threw |-> TRUE, val |-> EmptyArray]
  ELSE IF res.err = "ENOENT" THEN [threw |-> FALSE, val |-> EmptyArray]
  ELSE [threw |-> TRUE, val |-> EmptyArray]

\* readContacts(), given what fs.readFile produced
ReadContacts(res) ==
  IF res.err = "none"
    THEN LET p == Parse(res.data)
         IN  IF p.ok THEN [threw |-> FALSE, val |-> [kind |-> p.kind, items |-> p.items]]
             ELSE [threw |-> FALSE, val |-> EmptyArray]
  ELSE IF res.err = "ENOENT" THEN [threw |-> FALSE, val |-> EmptyArray]
  ELSE [threw |-> TRUE, val |-> EmptyArray]

\* a write of chunk at byte position pos of a file opened without O_APPEND
WriteAt(old, pos, chunk) ==
  SubSeq(old, 1, pos)
    \o chunk
    \o SubSeq(old, pos + Len(chunk) + 1, Len(old))

\* what loadAll returns for the document as it is now
Collection(f) ==
  LET rc == ReadContacts(ReadFile(f, "none"))
  IN  IF rc.val.kind = "array" THEN rc.val.items ELSE <<>>

(* ------------------------------- inputs ------------------------------- *)
sAna == <<"A", "n", "a">>
sLuz == <<"L", "u", "z">>
sEva == <<"E", "v", "a">>
sPaz == <<"P", "a", "z">>
sRey == <<"R", "e", "y">>
sBlank == <<" ", " ">>
sPhoneA == <<"8", "0", "9", "1", "2", "3", "4">>
sPhoneB == <<"8", "0", "9", "5", "6", "7", "8">>
sAbc == <<"a", "b", "c">>

Body(n, a, t) == [nombre |-> n, apellido |-> a, telefono |-> t]

\* request bodies a client can send (express.json() has parsed them)
Bodies ==
  { Body(sAna, sPaz, sPhoneA),
    Body(sLuz, sRey, sPhoneB),
    Body(sAna, sPaz, Undefined),
    Body(<<>>, sPaz, sPhoneA),
    Body(sAna, sBlank, sAbc) }

sJuan == <<"J", "u", "a", "n">>
sPerez == <<"P", "e", "r", "e", "z">>
sPhoneSep == <<"8", "0", "9", "-", "1", "2", "3", "-", "4", "5", "6", "7">>

\* request bodies whose telefono is written with separators, or without
SeparatorBodies ==
  { Body(sJuan, sPerez, sPhoneSep),
    Body(sLuz, sRey, sPhoneB) }

\* a contact persisted by an earlier run of the server
Old == [nombre |-> sEva, apellido |-> sRey, telefono |-> sPhoneB, id |-> ToString(0)]

\* documents the server finds at start: none, ones writeContacts left
\* complete, and ones an interrupted writeContacts left cut
InitDocs ==
  { Absent,
    FileOf(<<>>),
    FileOf(Stringify(<<>>)),
    FileOf(Stringify(<<Old>>)),
    FileOf(SubSeq(Stringify(<<Old>>), 1, 3)) }

\* documents edited by hand: valid JSON that is not an array, and an array
\* written without indentation
AnyDocs ==
  InitDocs \cup { FileOf(<<Tok("{}")>>),
                  FileOf(<<Tok("null")>>),
                  FileOf(<<Tok("["), ObjTok(Old), Tok("]")>>) }

(* ----------------------------- Validator ------------------------------ *)
MinPhoneDigits == 7
MaxPhoneDigits == 15
MinNameLength == 2
MaxNameLength == 50

IsDigit(ch) == ch \in Digits

\* text.replace(/\D/g, '')
OnlyDigits(s) == SelectSeq(s, IsDigit)

\* a test of the length of the text as typed, separators included
isValidPhoneRaw(phone) ==
  IF Falsy(phone) THEN FALSE
  ELSE Len(phone) >= MinPhoneDigits /\ Len(phone) <= MaxPhoneDigits

\* Validator.isValidPhone
isValidPhone(phone) ==
  IF Falsy(phone) THEN FALSE
  ELSE LET cleanPhone == OnlyDigits(phone)
       IN  Len(cleanPhone) >= MinPhoneDigits /\ Len(cleanPhone) <= MaxPhoneDigits

\* a-z and A-Z
AsciiLetters ==
  {"a", "b", "c", "d", "e", "f", "g", "h", "i", "j", "k", "l", "m",
   "n", "o", "p", "q", "r", "s", "t", "u", "v", "w", "x", "y", "z",
   "A", "B", "C", "D", "E", "F", "G", "H", "I", "J", "K", "L", "M",
   "N", "O", "P", "Q", "R", "S", "T", "U", "V", "W", "X", "Y", "Z"}

\* the accented letters of the expression, each written as one element
AccentedLetters ==
  {"a_acute", "e_acute", "i_acute", "o_acute", "u_acute",
   "A_acute", "E_acute", "I_acute", "O_acute", "U_acute",
   "n_tilde", "N_tilde", "u_diaeresis", "U_diaeresis"}

\* the class [a-zA-ZáéíóúÁÉÍÓÚñÑüÜ\s'-]
NameChar(ch) == ch \in AsciiLetters \cup AccentedLetters \cup {"'", "-"} \/ IsSpace(ch)

\* Validator.isValidName
isValidName(name) ==
  IF Falsy(name) THEN FALSE
  ELSE /\ \A i \in DOMAIN name : NameChar(name[i])
       /\ Len(name) >= MinNameLength
       /\ Len(name) <= MaxNameLength

\* text.replace(/\s+/g, ' ')
RECURSIVE CollapseSpaces(_)
CollapseSpaces(s) ==
  IF s = <<>> THEN <<>>
  ELSE IF IsSpace(Head(s))
    THEN <<" ">> \o CollapseSpaces(TrimStart(Tail(s)))
    ELSE <<Head(s)>> \o CollapseSpaces(Tail(s))

\* Validator.sanitizeText
sanitizeText(text) ==
  IF Falsy(text) THEN <<>> ELSE CollapseSpaces(Trim(text))

\* Validator.validateContact: the errors it collects, by field
validateContact(contactData) ==
  LET eNombre ==
        IF Falsy(contactData.nombre) THEN <<"El nombre es obligatorio">>
        ELSE IF ~isValidName(contactData.nombre)
          THEN <<"El nombre debe contener solo letras y tener entre 2 y 50 caracteres">>
        ELSE <<>>
      eApellido ==
        IF Falsy(contactData.apellido) THEN <<"El apellido es obligatorio">>
        ELSE IF ~isValidName(contactData.apellido)
          THEN <<"El apellido debe contener solo letras y tener entre 2 y 50 caracteres">>
        ELSE <<>>
      eTelefono ==
        IF Falsy(contactData.telefono) THEN <<"El teléfono es obligatorio">>
        ELSE IF ~isValidPhone(contactData.telefono)
          THEN <<"El teléfono debe tener entre 7 y 15 dígitos">>
        ELSE <<>>
      errors == eNombre \o eApellido \o eTelefono
  IN  [isValid |-> Len(errors) = 0, errors |-> errors]

\* (formData.get(name) || '').trim()
FormValue(v) == IF Falsy(v) THEN <<>> ELSE Trim(v)

\* the contactData of handleFormSubmit before validation
TrimmedForm(f) ==
  Body(FormValue(f.nombre), FormValue(f.apellido), FormValue(f.telefono))

\* the contactData of handleFormSubmit after "Sanitizar datos"
Sanitized(contactData) ==
  Body(sanitizeText(contactData.nombre),
       sanitizeText(contactData.apellido),
       OnlyDigits(contactData.telefono))

(* ----------------------------- the client ----------------------------- *)
Rep(ch, n) == [i \in 1..n |-> ch]

\* what the user typed in the form: nombre, apellido, telefono
fSpaced ==
  Body(<<" ", "A", "n", "a", " ", "\t", "L", "i", " ">>, sPaz,
       <<"8", "0", "9", "-", "1", "2", "3", "4">>)
fPlain ==
  Body(sLuz, <<"N", "u", "n_tilde", "e", "z", "-", "O", "'", "R">>,
       <<" ">> \o sPhoneB)
fEdge ==
  Body(Rep("a", MaxNameLength), <<"L", "i">>,
       <<"+">> \o Rep("1", 7) \o <<" ">> \o Rep("2", MaxPhoneDigits - 7))
fShortPhone == Body(sAna, sPaz, <<"1", "2", "-", "3", "4", "-", "5", "6">>)
fLongPhone == Body(sAna, sPaz, Rep("1", MaxPhoneDigits + 1))
fShortName == Body(<<" ", "A", " ">>, sPaz, sPhoneA)
fDigitName == Body(sAna, <<"P", "a", "4">>, sPhoneA)
fLongName == Body(Rep("a", MaxNameLength + 1), sPaz, sPhoneA)
fBlank == Body(sBlank, sPaz, sPhoneA)
fNoPhone == Body(sAna, sPaz, Undefined)

Forms ==
  { fSpaced, fPlain, fEdge, fShortPhone, fLongPhone, fShortName,
    fDigitName, fLongName, fBlank, fNoPhone }

FormsFew == { fSpaced, fShortPhone }

NoBody == Body(Undefined, Undefined, Undefined)
NoPost == [pc |-> "none", body |-> NoBody, result |-> "none"]
NoData == [kind |-> "none", items |-> <<>>]
NoSubmit == [form |-> NoBody, verdict |-> "none"]

\* a loadContacts call waiting for its fetch
NewLoad == [pc |-> "fetch", fresh |-> TRUE, data |-> NoData]

\* the body of loadContacts up to its first await
StartLoad(c) == [c EXCEPT !.isLoading = TRUE, !.loads = Append(@, NewLoad)]

\* a loadContacts without the test of isLoading
loadContactsUnguarded(c) == StartLoad(c)

\* loadContacts(), up to its first await
loadContacts(c) == IF c.isLoading THEN c ELSE StartLoad(c)

\* the page before new Agenda()
Page ==
  [isLoading |-> FALSE, contacts |-> <<>>, loads |-> <<>>, post |-> NoPost,
   formDisabled |-> FALSE, timers |-> 0, posts |-> 0,
   stale |-> FALSE, dropped |-> FALSE, submitted |-> NoSubmit]

\* the page after new Agenda(): the constructor has called loadContacts()
ClientInit == loadContacts(Page)

(* ------------------------------- state -------------------------------- *)
VARIABLES
  file,      \* contacts.json
  clock,     \* the last value Date.now() returned
  req,       \* per request: the handler's position, locals and response
  durable,   \* history: the collection of the last completed writeContacts
  initial,   \* history: the collection of the document at start
  overlap,   \* history: requests whose read-to-write window met another create
  client,    \* the page: isLoading, this.contacts, the calls in flight, timers
  remote     \* the collection of the API the page talks to (API_URL)

vars == <<file, clock, req, durable, initial, overlap, client, remote>>

NoIO == [err |-> "unread", data |-> <<>>]
NoResp == [kind |-> "none", items |-> <<>>, msg |-> ""]

Idle == [kind |-> "none", body |-> Body(Undefined, Undefined, Undefined),
         pc |-> "idle", io |-> NoIO, contacts |-> <<>>, id |-> Undefined,
         status |-> 0, resp |-> NoResp]

InitWith(docs) ==
  /\ file \in docs
  /\ clock = 1
  /\ req = [r \in Req |-> Idle]
  /\ durable = Collection(file)
  /\ initial = Collection(file)
  /\ overlap = [r \in Req |-> FALSE]
  /\ client = ClientInit
  /\ remote = <<>>

Init == InitWith(InitDocs)

InitAny == InitWith(AnyDocs)

InFlight(r) == req[r].pc \notin {"idle", "done"}

\* the server accepts request r: requests are numbered in order of arrival
\* (n requests in all, at most lim of them in flight)
CanStart(r, n, lim) ==
  /\ req[r].pc = "idle"
  /\ r <= n
  /\ IF r = 1 THEN TRUE ELSE req[r - 1].pc # "idle"
  /\ Cardinality({q \in Req : InFlight(q)}) < lim

Respond(r, status, resp) ==
  [req EXCEPT ![r].pc = "done", ![r].status = status, ![r].resp = resp]

Message(m) == [kind |-> "message", items |-> <<>>, msg |-> m]

(* ------------------------- GET /api/contacts -------------------------- *)
GetRecv(r, n, lim) ==
  /\ CanStart(r, n, lim)
  /\ req' = [req EXCEPT ![r].kind = "GET", ![r].pc = "read"]
  /\ UNCHANGED <<file, clock, durable, initial, overlap, client, remote>>

\* a handler that answers with a fresh empty array
GetResponseEmpty(rc) ==
  IF rc.threw
    THEN [status |-> 500,
          resp |-> Message("Error interno del servidor al obtener contactos.")]
    ELSE [status |-> 200, resp |-> [kind |-> "array", items |-> <<>>, msg |-> ""]]

\* res.json(contacts), or the catch block
GetResponse(rc) ==
  IF rc.threw
    THEN [status |-> 500,
          resp |-> Message("Error interno del servidor al obtener contactos.")]
    ELSE [status |-> 200,
          resp |-> [kind |-> rc.val.kind, items |-> rc.val.items, msg |-> ""]]

GetRead(r, fault) ==
  /\ req[r].kind = "GET"
  /\ req[r].pc = "read"
  /\ LET res == ReadFile(file, fault)
         out == GetResponse(ReadContacts(res))
     IN  req' = [req EXCEPT ![r].pc = "done", ![r].io = res,
                            ![r].status = out.status, ![r].resp = out.resp]
  /\ UNCHANGED <<file, clock, durable, initial, overlap, client, remote>>

(* ------------------------- POST /api/contacts ------------------------- *)
\* a validation that forgets telefono
MissingFieldNoPhone(b) == Falsy(b.nombre) \/ Falsy(b.apellido)

\* the "Validación básica" test of the handler
MissingField(b) == Falsy(b.nombre) \/ Falsy(b.apellido) \/ Falsy(b.telefono)

PostRecv(r, b, n, lim) ==
  /\ CanStart(r, n, lim)
  /\ IF MissingField(b)
       THEN req' = [req EXCEPT ![r].kind = "POST", ![r].body = b, ![r].pc = "done",
                      ![r].status = 400,
                      ![r].resp = Message("Faltan campos obligatorios: nombre, apellido o telefono.")]
       ELSE req' = [req EXCEPT ![r].kind = "POST", ![r].body = b, ![r].pc = "read"]
  /\ UNCHANGED <<file, clock, durable, initial, overlap, client, remote>>

\* newContact.id = Date.now().toString()
NewId(now) == ToString(now)

\* an assignment in place of the push: the new contact replaces the collection
PushReplace(items, c) == <<c>>

\* contacts.unshift(newContact) in place of the push
Unshift(items, c) == <<c>> \o items

\* contacts.push(newContact)
Push(items, c) == Append(items, c)

ServerError == Message("Error interno del servidor al agregar contacto.")

\* creates between their readContacts and the end of their writeContacts
InWindow == {q \in Req : req[q].kind = "POST" /\ req[q].pc \in {"open", "write"}}

\* values Date.now() may return after it returned last: time does not go back
Now(last) == {t \in last..(last + 1) : t <= MaxClock}

PostRead(r, fault) ==
  /\ req[r].kind = "POST"
  /\ req[r].pc = "read"
  /\ LET res == ReadFile(file, fault)
         rc == ReadContacts(res)
     IN  IF rc.threw
           THEN /\ req' = [req EXCEPT ![r].pc = "done", ![r].io = res,
                             ![r].status = 500, ![r].resp = ServerError]
                /\ clock' = clock
           ELSE \E now \in Now(clock) :
                  LET c == [nombre |-> req[r].body.nombre,
                            apellido |-> req[r].body.apellido,
                            telefono |-> req[r].body.telefono, id |-> NewId(now)]
                  IN  /\ clock' = now
                      /\ IF rc.val.kind # "array"
                           \* contacts.push is not a function: TypeError, caught
                           THEN req' = [req EXCEPT ![r].pc = "done", ![r].io = res,
                                          ![r].id = c.id, ![r].status = 500,
                                          ![r].resp = ServerError]
                           ELSE req' = [req EXCEPT ![r].pc = "open", ![r].io = res,
                                          ![r].id = c.id,
                                          ![r].contacts = Push(rc.val.items, c)]
  /\ overlap' = [q \in Req |->
                   IF q \in InWindow \/ (q = r /\ InWindow # {}) THEN TRUE
                   ELSE overlap[q]]
  /\ UNCHANGED <<file, durable, initial, client, remote>>

\* fs.writeFile opens DATA_FILE with flag 'w': created or truncated
WriteOpen(r, fault) ==
  /\ req[r].kind = "POST"
  /\ req[r].pc = "open"
  /\ IF fault # "none"
       THEN /\ req' = Respond(r, 500, ServerError)
            /\ file' = file
       ELSE /\ req' = [req EXCEPT ![r].pc = "write"]
            /\ file' = FileOf(<<>>)
  /\ UNCHANGED <<clock, durable, initial, overlap, client, remote>>

Created == [kind |-> "text", items |-> <<>>, msg |-> "Contacto agregado exitosamente"]

\* the write() of fs.writeFile at position 0 of the file it opened, after
\* which writeContacts returns and the handler sends 201
WriteData(r, fault) ==
  /\ req[r].kind = "POST"
  /\ req[r].pc = "write"
  /\ IF fault # "none"
       THEN /\ req' = Respond(r, 500, ServerError)
            /\ UNCHANGED <<file, durable>>
       ELSE /\ file' = FileOf(WriteAt(file.text, 0, Stringify(req[r].contacts)))
            /\ req' = Respond(r, 201, Created)
            /\ durable' = Collection(file')
  /\ UNCHANGED <<clock, initial, overlap, client, remote>>

(* --------------------------- specifications --------------------------- *)
Next ==
  \/ \E r \in Req : GetRecv(r, MaxConcurrent, MaxConcurrent)
  \/ \E r \in Req : GetRead(r, "none")
  \/ \E r \in Req, b \in Bodies : PostRecv(r, b, MaxConcurrent, MaxConcurrent)
  \/ \E r \in Req : PostRead(r, "none")
  \/ \E r \in Req : WriteOpen(r, "none")
  \/ \E r \in Req : WriteData(r, "none")

Spec == Init /\ [][Next]_vars

\* requests handled one at a time: each arrives after the previous response
NextSeq ==
  \/ \E r \in Req : GetRecv(r, MaxReq, 1)
  \/ \E r \in Req : GetRead(r, "none")
  \/ \E r \in Req, b \in Bodies : PostRecv(r, b, MaxReq, 1)
  \/ \E r \in Req : PostRead(r, "none")
  \/ \E r \in Req : WriteOpen(r, "none")
  \/ \E r \in Req : WriteData(r, "none")

SpecSeq == Init /\ [][NextSeq]_vars

\* any content of the backing document at start
SpecAny == InitAny /\ [][Next]_vars

\* errors of the file system other than ENOENT
ReadFaults == {"EACCES"}
OpenFaults == {"EACCES"}
WriteFaults == {"ENOSPC"}

\* readFile may fail
NextReadFault ==
  \/ Next
  \/ \E r \in Req, f \in ReadFaults : GetRead(r, f)
  \/ \E r \in Req, f \in ReadFaults : PostRead(r, f)

SpecReadFault == Init /\ [][NextReadFault]_vars

\* readFile and writeFile may fail
NextFault ==
  \/ NextReadFault
  \/ \E r \in Req, f \in OpenFaults : WriteOpen(r, f)
  \/ \E r \in Req, f \in WriteFaults : WriteData(r, f)

SpecFault == Init /\ [][NextFault]_vars

\* requests handled one at a time, readFile and writeFile may fail
NextSeqFault ==
  \/ NextSeq
  \/ \E r \in Req, f \in ReadFaults : GetRead(r, f)
  \/ \E r \in Req, f \in ReadFaults : PostRead(r, f)
  \/ \E r \in Req, f \in OpenFaults : WriteOpen(r, f)
  \/ \E r \in Req, f \in WriteFaults : WriteData(r, f)

SpecSeqFault == Init /\ [][NextSeqFault]_vars

\* requests handled one at a time, sent to the API without the form
NextSeparators ==
  \/ \E r \in Req : GetRecv(r, MaxReq, 1)
  \/ \E r \in Req : GetRead(r, "none")
  \/ \E r \in Req, b \in SeparatorBodies : PostRecv(r, b, MaxReq, 1)
  \/ \E r \in Req : PostRead(r, "none")
  \/ \E r \in Req : WriteOpen(r, "none")
  \/ \E r \in Req : WriteData(r, "none")

SpecSeparators == Init /\ [][NextSeparators]_vars

(* ------------------------------ the page ------------------------------ *)
serverVars == <<file, clock, req, durable, initial, overlap>>

Submitted(f, verdict) == [form |-> f, verdict |-> verdict]

\* the submit listener of the form; a form whose controls are disabled
\* dispatches no submit event
handleFormSubmit(f) ==
  /\ ~client.formDisabled
  /\ client.posts < MaxPosts
  /\ LET contactData == TrimmedForm(f)
         validation == validateContact(contactData)
     IN  IF client.isLoading
           THEN client' = [client EXCEPT !.submitted = Submitted(f, "busy")]
         ELSE IF ~validation.isValid
           THEN client' = [client EXCEPT !.submitted = Submitted(f, "rejected")]
         ELSE client' =
                [client EXCEPT
                   !.post = [pc |-> "fetch", body |-> Sanitized(contactData),
                             result |-> "none"],
                   !.formDisabled = TRUE,
                   !.posts = @ + 1,
                   !.submitted = Submitted(f, "posted")]
  /\ UNCHANGED <<serverVars, remote>>

\* what the fetch of addContact can bring: 2xx with a text without "error"
\* (the API stored the contact), 2xx with a text that has "error", another
\* status, or a rejected fetch
PostOutcomes == {"created", "errortext", "http", "throw"}

\* the fetch of addContact settles
PostFetch(outcome) ==
  /\ client.post.pc = "fetch"
  /\ IF outcome \in {"created", "errortext"}
       THEN /\ client' = [client EXCEPT !.post.pc = "text", !.post.result = outcome]
            /\ remote' = IF outcome = "created"
                           THEN Append(remote, client.post.body) ELSE remote
       ELSE \* throw, catch, and the finally of handleFormSubmit
            /\ client' = [client EXCEPT !.post = NoPost, !.formDisabled = FALSE]
            /\ remote' = remote
  /\ UNCHANGED serverVars

\* response.text() settles: success and setTimeout, or throw and catch;
\* then the finally of handleFormSubmit
PostText ==
  /\ client.post.pc = "text"
  /\ IF client.post.result = "created"
       THEN client' =
              [client EXCEPT
                 !.post = NoPost,
                 !.formDisabled = FALSE,
                 !.timers = @ + 1,
                 !.stale = TRUE,
                 !.loads = [i \in DOMAIN client.loads |->
                              [client.loads[i] EXCEPT !.fresh = FALSE]]]
       ELSE client' = [client EXCEPT !.post = NoPost, !.formDisabled = FALSE]
  /\ UNCHANGED <<serverVars, remote>>

\* click on the refresh button
refreshContacts ==
  /\ Len(client.loads) < MaxLoads
  /\ client' = loadContacts(client)
  /\ UNCHANGED <<serverVars, remote>>

\* the 'online' event of the window
Online ==
  /\ Len(client.loads) < MaxLoads
  /\ client' = loadContacts(client)
  /\ UNCHANGED <<serverVars, remote>>

\* an interval that never calls loadContacts
AutoRefreshOff == UNCHANGED vars

\* the callback of setInterval in setupAutoRefresh
AutoRefresh ==
  /\ Len(client.loads) < MaxLoads
  /\ client' = IF ~client.isLoading THEN loadContacts(client) ELSE client
  /\ UNCHANGED <<serverVars, remote>>

\* the callback of the setTimeout of addContact
ReloadTimer ==
  /\ client.timers > 0
  /\ Len(client.loads) < MaxLoads
  /\ client' = loadContacts([client EXCEPT !.timers = @ - 1,
                                            !.dropped = @ \/ client.isLoading])
  /\ UNCHANGED <<serverVars, remote>>

RemoveAt(s, i) == SubSeq(s, 1, i - 1) \o SubSeq(s, i + 1, Len(s))

\* the finally of loadContacts for the call at position i
Settle(c, i) ==
  [c EXCEPT !.isLoading = FALSE,
            !.loads = RemoveAt(@, i),
            !.stale = IF c.loads[i].fresh THEN FALSE ELSE @]

\* what the fetch of loadContacts can bring: 2xx with an array, 2xx with
\* another body, another status, or a rejected fetch
LoadOutcomes == {"array", "other", "http", "throw"}

\* the fetch of loadContacts settles
LoadFetch(i, outcome) ==
  /\ i \in DOMAIN client.loads
  /\ client.loads[i].pc = "fetch"
  /\ IF outcome = "array"
       THEN client' = [client EXCEPT !.loads[i].pc = "json",
                         !.loads[i].data = [kind |-> "array", items |-> remote]]
     ELSE IF outcome = "other"
       THEN client' = [client EXCEPT !.loads[i].pc = "json",
                         !.loads[i].data = [kind |-> "other", items |-> <<>>]]
     ELSE client' = Settle(client, i)
  /\ UNCHANGED <<serverVars, remote>>

\* response.json() settles: this.contacts = data, or throw and catch
LoadJson(i) ==
  /\ i \in DOMAIN client.loads
  /\ client.loads[i].pc = "json"
  /\ IF client.loads[i].data.kind = "array"
       THEN client' = [Settle(client, i) EXCEPT !.contacts = client.loads[i].data.items]
       ELSE client' = Settle(client, i)
  /\ UNCHANGED <<serverVars, remote>>

LoadSlots == 1..MaxLoads

LoadSettles ==
  \/ \E i \in LoadSlots, o \in LoadOutcomes : LoadFetch(i, o)
  \/ \E i \in LoadSlots : LoadJson(i)

PostSettles ==
  \/ \E o \in PostOutcomes : PostFetch(o)
  \/ PostText

\* the page with every form the user may type
NextForm ==
  \/ \E f \in Forms : handleFormSubmit(f)
  \/ \E o \in PostOutcomes : PostFetch(o)
  \/ PostText
  \/ refreshContacts
  \/ \E i \in LoadSlots, o \in LoadOutcomes : LoadFetch(i, o)
  \/ \E i \in LoadSlots : LoadJson(i)

InitClient == InitWith({Absent})

SpecForm == InitClient /\ [][NextForm]_vars

\* the page with its timers and events
NextClient ==
  \/ \E f \in FormsFew : handleFormSubmit(f)
  \/ \E o \in PostOutcomes : PostFetch(o)
  \/ PostText
  \/ refreshContacts
  \/ Online
  \/ AutoRefresh
  \/ ReloadTimer
  \/ \E i \in LoadSlots, o \in LoadOutcomes : LoadFetch(i, o)
  \/ \E i \in LoadSlots : LoadJson(i)

\* every fetch settles and every timer that is due runs its callback; the
\* user and the network events are free
ClientFairness ==
  /\ WF_vars(LoadSettles)
  /\ WF_vars(PostSettles)
  /\ WF_vars(AutoRefresh)
  /\ WF_vars(ReloadTimer)

SpecClient == InitClient /\ [][NextClient]_vars /\ ClientFairness

(* ------------------------------ properties ---------------------------- *)
IsPrefix(s, t) == Len(s) <= Len(t) /\ SubSeq(t, 1, Len(s)) = s

Elems(s) == {s[i] : i \in DOMAIN s}

IsPost(r) == req[r].kind = "POST"
IsGet(r) == req[r].kind = "GET"
Done(r) == req[r].pc = "done"

\* the record a create request r persists
Stored(r) ==
  [nombre |-> req[r].body.nombre, apellido |-> req[r].body.apellido,
   telefono |-> req[r].body.telefono, id |-> req[r].id]

\* a field of the request that is there and is not the empty string
Present(v) == v # Undefined /\ Len(v) > 0

AllPresent(b) == Present(b.nombre) /\ Present(b.apellido) /\ Present(b.telefono)

\* C1: handled alone, a create whose three fields are present answers 201,
\* and a List after it returns the List before it plus one element, which
\* carries the submitted nombre, apellido and telefono and a non-empty id.
C1_CreateThenList ==
  \A r \in Req :
    (IsPost(r) /\ Done(r) /\ AllPresent(req[r].body)) =>
      /\ req[r].status = 201
      /\ IF r > 1 /\ r < MaxReq
           THEN (IsGet(r - 1) /\ IsGet(r + 1) /\ Done(r + 1)) =>
                  LET before == req[r - 1].resp
                      after == req[r + 1].resp
                  IN  /\ req[r - 1].status = 200 /\ before.kind = "array"
                      /\ req[r + 1].status = 200 /\ after.kind = "array"
                      /\ Len(after.items) = Len(before.items) + 1
                      /\ after.items = Append(before.items, Stored(r))
                      /\ ~Falsy(req[r].id)
           ELSE TRUE

C1_Witness ==
  /\ IsGet(1) /\ IsPost(2) /\ IsGet(3) /\ Done(3)
  /\ req[2].status = 201
  /\ req[1].resp.items = <<Old>>
  /\ Len(req[3].resp.items) = 2

\* C2: a create with a missing or empty field answers 400 with a message in
\* the step that receives it, never calls readFile or writeFile, and leaves
\* the backing document as it was.
C2_RejectNoSideEffect ==
  [][\A r \in Req :
       /\ (req[r].pc = "idle" /\ req'[r].kind = "POST" /\ ~AllPresent(req'[r].body)) =>
            /\ req'[r].pc = "done"
            /\ req'[r].status = 400
            /\ req'[r].resp.kind = "message" /\ req'[r].resp.msg # ""
            /\ req'[r].io = NoIO /\ req'[r].contacts = <<>>
            /\ file' = file
       /\ (req[r].status = 400) => (req'[r] = req[r])]_vars

C2_Witness ==
  \E r \in Req :
    /\ IsPost(r) /\ Done(r) /\ req[r].status = 400
    /\ req[r].body.telefono = Undefined
    /\ Collection(file) # <<>>

\* C10: two creates of distinct contacts A then B, the second received after
\* the first was answered, both answer 201, and a List afterwards returns
\* the contacts persisted earlier, then A, then B.
C10_CreationOrder ==
  \A r \in Req :
    IF r + 2 <= MaxReq
      THEN (/\ IsPost(r) /\ IsPost(r + 1) /\ IsGet(r + 2) /\ Done(r + 2)
            /\ AllPresent(req[r].body) /\ AllPresent(req[r + 1].body)
            /\ req[r].body # req[r + 1].body) =>
             /\ req[r].status = 201 /\ req[r + 1].status = 201
             /\ req[r + 2].status = 200 /\ req[r + 2].resp.kind = "array"
             /\ req[r + 2].resp.items =
                  ReadContacts(req[r].io).val.items \o <<Stored(r), Stored(r + 1)>>
      ELSE TRUE

C10_Witness ==
  /\ IsPost(1) /\ IsPost(2) /\ IsGet(3) /\ Done(3)
  /\ req[1].body # req[2].body
  /\ req[1].status = 201 /\ req[2].status = 201
  /\ Len(req[3].resp.items) = 3

\* no writeContacts is between its readContacts and its last write
Quiescent == InWindow = {}

Created201 == {r \in Req : IsPost(r) /\ req[r].status = 201}

GrewByOnePerCreate ==
  /\ Len(Collection(file)) = Len(initial) + Cardinality(Created201)
  /\ \A r \in Created201 : Stored(r) \in Elems(Collection(file))

\* C3 (as claimed): after n creates that answered 201, in any interleaving
\* of their reads and writes, the document holds n more records than at
\* start and contains each of the n contacts.
C3_AnyInterleaving == Quiescent => GrewByOnePerCreate

\* C3 (amended): the same, for creates none of which read or wrote the
\* document between another create's read and the end of its write.
C3_NoOverlap ==
  (Quiescent /\ \A r \in Req : ~overlap[r]) => GrewByOnePerCreate

C3_Witness ==
  /\ Quiescent
  /\ \A r \in Req : ~overlap[r]
  /\ Cardinality(Created201) = 2
  /\ initial # <<>>

\* C4: a loadAll whose readFile runs while a writeFile is between its open
\* and the end of its write returns a complete collection: that of the last
\* completed writeContacts, or the one being written.
C4_AtomicOverwrite ==
  [][\A g \in Req :
       (/\ req[g].pc = "read" /\ req'[g].pc # "read"
        /\ \E w \in Req : req[w].pc = "write") =>
         LET got == ReadContacts(req'[g].io).val.items
         IN  \/ got = durable
             \/ \E w \in Req : req[w].pc = "write" /\ got = req[w].contacts]_vars

\* C5: two contacts of the document that distinct creates answered with 201
\* added have different ids.
C5_UniqueIds ==
  LET coll == Collection(file)
  IN  \A r1, r2 \in Created201 :
        \A i, j \in DOMAIN coll :
          (r1 # r2 /\ i # j /\ coll[i] = Stored(r1) /\ coll[j] = Stored(r2)) =>
            coll[i].id # coll[j].id

\* C6 (as claimed): in any interleaving and for any content of the document
\* at start, the persisted collection only grows at its end: each completed
\* writeContacts leaves a collection that the previous one is a prefix of,
\* and nothing else changes it.
C6_AppendOnly == [][IsPrefix(durable, durable')]_vars

\* C6 (amended): the same for the writeContacts of creates that did not
\* read or write the document between another create's read and the end of
\* its write, and whose window no other create read or wrote in; a List
\* changes neither the document nor the persisted collection.
C6_AppendOnlyNoOverlap ==
  [][/\ \A r \in Req :
          (req[r].pc = "write" /\ req'[r].pc = "done" /\ ~overlap[r]) =>
            /\ IsPrefix(durable, durable')
            /\ durable' = Collection(file')
     /\ (durable' # durable) =>
          \E r \in Req : IsPost(r) /\ req[r].pc = "write" /\ req'[r].pc = "done"
     /\ \A g \in Req :
          (IsGet(g) /\ req'[g] # req[g]) => file' = file]_vars

C6_Witness ==
  \E r, q \in Req :
    /\ r # q /\ IsPost(r) /\ IsPost(q)
    /\ req[r].status = 201 /\ ~overlap[r]
    /\ req[q].status = 201 /\ ~overlap[q]
    /\ Len(durable) = 3
    /\ durable = Collection(file)

IsDigitString(s) == \A i \in DOMAIN s : s[i] \in Digits

ValidPersisted(c) ==
  /\ ~Falsy(c.id) /\ ~Falsy(c.nombre) /\ ~Falsy(c.apellido)
  /\ IsDigitString(c.telefono)
  /\ Len(c.telefono) >= MinPhoneDigits /\ Len(c.telefono) <= MaxPhoneDigits

\* C7: starting from an empty or absent document, every contact of the
\* document has a non-empty id, nombre and apellido and a telefono of 7 to
\* 15 digits.
C7_PersistedInvariant ==
  (initial = <<>>) => \A c \in Elems(Collection(file)) : ValidPersisted(c)

OnlyWhitespace(v) == v # Undefined /\ v # <<>> /\ Trim(v) = <<>>

\* C8: a create one of whose fields is only whitespace answers 400 and
\* persists nothing.
C8_BlankRejected ==
  \A r \in Req :
    (/\ IsPost(r) /\ Done(r)
     /\ \/ OnlyWhitespace(req[r].body.nombre)
        \/ OnlyWhitespace(req[r].body.apellido)
        \/ OnlyWhitespace(req[r].body.telefono)) =>
      /\ req[r].status = 400
      /\ req[r].contacts = <<>>

Unparsable(res) == res.err = "none" /\ ~Parse(res.data).ok

\* C9: when the document is absent or cannot be parsed (an empty file
\* included) loadAll returns an empty sequence: a List answers 200 with an
\* empty array and a create goes on with its contact alone; any other
\* failure of the read leaves loadAll as an error, which the handlers answer
\* with 500.
C9_LoadAllRecovery ==
  \A r \in Req :
    /\ (req[r].io.err = "ENOENT" \/ Unparsable(req[r].io)) =>
         /\ IsGet(r) => (/\ Done(r) /\ req[r].status = 200
                         /\ req[r].resp.kind = "array" /\ req[r].resp.items = <<>>)
         /\ IsPost(r) => req[r].contacts = <<Stored(r)>>
    /\ (req[r].io.err \notin {"unread", "none", "ENOENT"}) =>
         /\ Done(r) /\ req[r].status = 500 /\ req[r].contacts = <<>>

C9_Witness ==
  /\ \E r \in Req : IsGet(r) /\ Done(r) /\ req[r].io = [err |-> "none", data |-> <<>>]
  /\ \E r \in Req : IsGet(r) /\ Done(r) /\ req[r].io.err = "EACCES"

GenericMessages ==
  {Message("Error interno del servidor al obtener contactos."),
   Message("Error interno del servidor al agregar contacto.")}

\* C11: with requests handled one at a time, a request that readFile or
\* writeFile fails answers 500 with one of the two fixed messages, the next
\* request can still be received, and the collection of the backing
\* document is the one persisted before the request: the failed request
\* added nothing and removed nothing.
C11_StoreFailureIsolated ==
  [][\A r \in Req :
       (req[r].pc # "done" /\ req'[r].pc = "done" /\ req'[r].status = 500) =>
         /\ req'[r].resp \in GenericMessages
         /\ \A q \in Req : (q # r) => req'[q] = req[q]
         /\ durable' = durable
         /\ Collection(file') = durable]_vars

\* C12: with requests handled one at a time, a create that answered 201
\* persisted a record whose telefono is the telefono of the request with
\* every non-digit removed, with the request's nombre and apellido and a
\* generated id, and a List received after it returns that record.
C12_PhoneNormalized ==
  \A r \in Created201 :
    LET c == [Stored(r) EXCEPT !.telefono = OnlyDigits(req[r].body.telefono)]
    IN  /\ ~Falsy(c.id)
        /\ c \in Elems(Collection(file))
        /\ \A g \in Req :
             (g > r /\ IsGet(g) /\ Done(g)) => c \in Elems(req[g].resp.items)

\* saveAll(loadAll()) applied to a document: the text it leaves
SaveLoaded(text) == Stringify(Collection(FileOf(text)))

\* saveAll(loadAll()) leaves the document that holds collection cs as it
\* is, and a second saveAll(loadAll()) leaves what the first left
RoundTrips(cs) ==
  LET doc == Stringify(cs)
      loaded == Collection(FileOf(doc))
      once == Stringify(loaded)
  IN  /\ loaded = cs
      /\ once = doc
      /\ SaveLoaded(once) = once

ReadNonArray(r) ==
  /\ req[r].io.err = "none"
  /\ Parse(req[r].io.data).ok
  /\ Parse(req[r].io.data).kind # "array"

\* C15: whatever the document holds, a List answers 200 with an array or
\* 500; when the document is valid JSON that is not an array, the List
\* answers 200 with an empty array and a create with its three fields
\* answers 201.
C15_ListReturnsSequence ==
  \A r \in Req :
    Done(r) =>
      /\ IsGet(r) =>
           \/ req[r].status = 200 /\ req[r].resp.kind = "array"
           \/ req[r].status = 500
      /\ (IsGet(r) /\ ReadNonArray(r)) =>
           /\ req[r].status = 200
           /\ req[r].resp.kind = "array" /\ req[r].resp.items = <<>>
      /\ (IsPost(r) /\ ReadNonArray(r)) => req[r].status = 201

\* the call of loadContacts at position i ends in this step
Settles(i) ==
  /\ i \in DOMAIN client.loads
  /\ Len(client'.loads) < Len(client.loads)

\* C14: once the page has seen a create succeed, a GET issued after that
\* response settles later on, also when the reload due 1 s after the
\* success found isLoading true and returned without fetching; and a GET
\* that brought an array replaces this.contacts with it when it ends.
C14_RefetchAfterCreate ==
  /\ client.stale ~> ~client.stale
  /\ [][\A i \in LoadSlots :
          (/\ Settles(i)
           /\ client.loads[i].pc = "json"
           /\ client.loads[i].data.kind = "array") =>
            client'.contacts = client.loads[i].data.items]_vars

C14_Witness ==
  /\ client.dropped
  /\ client.timers = 0
  /\ ~client.stale
  /\ remote # <<>>
  /\ client.contacts = remote

\* C16: in any interleaving of the constructor's load, the refresh button,
\* the interval, the reload timer and the 'online' event, at most one
\* loadContacts is between its fetch and its finally, and isLoading is true
\* exactly then; a call made while isLoading is true starts no fetch; every
\* call that ends, whatever its fetch brought, leaves isLoading false; and
\* isLoading does not stay true for ever.
C16_LoadsSerialized ==
  /\ [](/\ Len(client.loads) <= 1
        /\ client.isLoading <=> Len(client.loads) = 1)
  /\ [][/\ client.isLoading => Len(client'.loads) <= Len(client.loads)
        /\ \A i \in LoadSlots : Settles(i) => ~client'.isLoading]_vars
  /\ client.isLoading ~> ~client.isLoading

C16_Witness ==
  /\ client.dropped
  /\ client.isLoading
  /\ Len(client.loads) = 1
  /\ client.loads[1].pc = "json"
  /\ client.loads[1].data.kind = "other"

\* 2 to 50 characters, each a letter, a space, a hyphen or an apostrophe
NameAsClaimed(s) ==
  /\ s # Undefined
  /\ Len(s) >= MinNameLength /\ Len(s) <= MaxNameLength
  /\ \A i \in DOMAIN s : s[i] \in AsciiLetters \cup AccentedLetters \cup {" ", "-", "'"}

\* 7 to 15 characters, each a digit
PhoneAsClaimed(s) ==
  /\ s # Undefined
  /\ IsDigitString(s)
  /\ Len(s) >= MinPhoneDigits /\ Len(s) <= MaxPhoneDigits

\* C17: every POST of the page carries a nombre and an apellido of 2 to 50
\* letters, spaces, hyphens and apostrophes and a telefono of 7 to 15
\* digits; a POST is sent only for a form whose trimmed values
\* validateContact accepted, and its body is those values sanitized; a
\* submit that validation refused, or that found isLoading true, sent no
\* POST and left the form enabled.
C17_OnlyValidPosts ==
  /\ (client.post.pc # "none") =>
       /\ NameAsClaimed(client.post.body.nombre)
       /\ NameAsClaimed(client.post.body.apellido)
       /\ PhoneAsClaimed(client.post.body.telefono)
       /\ client.submitted.verdict = "posted"
       /\ client.post.body = Sanitized(TrimmedForm(client.submitted.form))
  /\ (client.submitted.verdict = "posted") =>
       validateContact(TrimmedForm(client.submitted.form)).isValid
  /\ (client.submitted.verdict = "rejected") =>
       ~validateContact(TrimmedForm(client.submitted.form)).isValid
  /\ (client.submitted.verdict \in {"rejected", "busy"}) =>
       /\ client.post.pc = "none"
       /\ ~client.formDisabled

C17_Witness ==
  /\ client.submitted = Submitted(fSpaced, "posted")
  /\ client.post.pc = "fetch"
  /\ client.post.body =
       Body(<<"A", "n", "a", " ", "L", "i">>, sPaz, sPhoneA)
  /\ client.posts = 2
  /\ client.formDisabled

====
